---- MODULE Spec2Model ----
(***************************************************************************)
(* Model of ml/src/inference/ann_index.py: the ANNIndex controller, the    *)
(* hnswlib.Index object it drives, and the artifact directory it writes.   *)
(*                                                                         *)
(* Numbers.  A vector is a tuple of integers on a grid of Unit steps per   *)
(* 1.0, so <<3,4>> is the unit vector (0.6, 0.8).  Products, distances and *)
(* scores are on the squared grid: One (= Unit*Unit) is 1.0.  Every vector *)
(* of the model has an integer norm, so normalisation is exact.            *)
(*                                                                         *)
(* Search.  knn_query is modelled at full recall: the k nearest stored     *)
(* elements, ascending by (distance, label), which is what hnswlib returns *)
(* when ef_search and M are not smaller than the element count.            *)
(***************************************************************************)
EXTENDS Integers, Sequences, FiniteSets, TLC

----------------------------------------------------------------------------
(* Program constants                                                       *)

Unit == 5
One == Unit * Unit

\* ANNIndexConfig defaults
DefaultEfConstruction == 200
DefaultM == 16
DefaultEfSearch == 100
DefaultMaxElements == 1000000

\* the over-fetch margin of query()
Margin == 10

Spaces == {"cosine", "l2", "ip"}

----------------------------------------------------------------------------
(* Bounds of the model                                                     *)

\* largest k asked of query() and query_batch()
MaxK == 2
\* number of rows of the large corpus (more than k + exclusions + Margin)
BigN == 13

\* the vectors of the small corpora: VB and VC have the same direction
VA == <<5, 0>>
VB == <<3, 4>>
VC == <<6, 8>>
\* a vector of another width
VW == <<5>>
\* the twelve grid points of norm Unit
Ring == << <<5, 0>>, <<4, 3>>, <<3, 4>>, <<0, 5>>, <<-3, 4>>, <<-4, 3>>,
           <<-5, 0>>, <<-4, -3>>, <<-3, -4>>, <<0, -5>>, <<3, -4>>, <<4, -3>> >>

BigEmbeddings == [i \in 1..BigN |-> Ring[((i - 1) % 12) + 1]]
BigIds == [i \in 1..BigN |-> "u" \o ToString(i)]
\* the large corpus under two IDs: "b" for the row opposite to VA, "a" for the rest
CrowdedIds == [i \in 1..BigN |-> IF BigEmbeddings[i] = <<-5, 0>> THEN "b" ELSE "a"]

SmallEmbeddings == {<<VA>>, <<VA, VC>>, <<VC, VB, VA>>, <<VW>>}
SmallIds == {<<"a">>, <<"a", "b">>, <<"b", "a", "c">>, <<"", "a">>, <<"a", "a">>}

\* build() inputs: (embeddings, user_ids)
BuildInputs ==
    (SmallEmbeddings \X SmallIds) \cup {<<BigEmbeddings, BigIds>>, <<BigEmbeddings, CrowdedIds>>}
IOBuildInputs == {<< <<VA, VC>>, <<"a", "b">> >>, << <<VA, VC>>, <<"b">> >>, << <<VW>>, <<"b">> >>}

\* exclude_ids: None, or a list
NoneIds == [none |-> TRUE, ids |-> <<>>]
SomeIds(l) == [none |-> FALSE, ids |-> l]
Excludes ==
    {NoneIds} \cup {SomeIds(l) : l \in {<<>>, <<"a">>, <<"b", "a">>, <<"u1">>}}
IOExcludes == {NoneIds, SomeIds(<<"a">>)}

QueryVecs == {VA, VC, VW}
IOQueryVecs == {VA, VW}
BatchInputs == {<<VA>>, <<VC, VA>>, <<VW>>}
IOBatchInputs == {<<VA>>, <<VW>>}

MkConfig(sp, cap) ==
    [space |-> sp, ef_construction |-> DefaultEfConstruction, M |-> DefaultM,
     ef_search |-> DefaultEfSearch, max_elements |-> cap]
Configs == {MkConfig(sp, DefaultMaxElements) : sp \in Spaces} \cup {MkConfig("cosine", 1)}
IOConfigs == {MkConfig(sp, DefaultMaxElements) : sp \in Spaces}
EnvConfigs == {MkConfig(sp, DefaultMaxElements) : sp \in {"cosine", "l2"}}
\* the dimension of the controllers: the width of VA, and for the controllers
\* that load an artifact also the width of VW
Dims == {2}
IODims == {1, 2}

----------------------------------------------------------------------------
(* Helpers                                                                 *)

Min(a, b) == IF a <= b THEN a ELSE b
Max(a, b) == IF a >= b THEN a ELSE b
Range(s) == {s[i] : i \in DOMAIN s}

RECURSIVE SumTo(_, _)
SumTo(f, n) == IF n = 0 THEN 0 ELSE f[n] + SumTo(f, n - 1)

Dot(a, b) == SumTo([i \in 1..Len(a) |-> a[i] * b[i]], Len(a))

\* exact integer square root (every vector of the model has an integer norm)
Norm(v) == CHOOSE n \in 0..(Dot(v, v) + 1) : n * n = Dot(v, v)

----------------------------------------------------------------------------
(* hnswlib.Index, as the controller uses it                                *)

\* cosine indexes normalise every vector they store and every query
Normalize(v) == IF Norm(v) = 0 THEN v ELSE [i \in 1..Len(v) |-> (v[i] * Unit) \div Norm(v)]
Prepared(space, v) == IF space = "cosine" THEN Normalize(v) ELSE v

\* l2: squared Euclidean distance; ip and cosine: 1 - inner product
Distance(space, a, b) ==
    IF space = "l2"
    THEN SumTo([i \in 1..Len(a) |-> (a[i] - b[i]) * (a[i] - b[i])], Len(a))
    ELSE One - Dot(a, b)

\* Python None
NoIndex == [st |-> "none", space |-> "", dim |-> 0, cap |-> 0, data |-> <<>>]
\* hnswlib.Index(space, dim): constructed, no graph allocated yet
NewIndex(space, d) == [st |-> "new", space |-> space, dim |-> d, cap |-> 0, data |-> <<>>]
\* init_index(max_elements, ...): an empty graph of fixed capacity
InitIndex(ix, max_elements) == [ix EXCEPT !.st = "ready", !.cap = max_elements]

\* row width of a matrix (numpy arrays are rectangular)
Width(rows) == IF Len(rows) = 0 THEN 0 ELSE Len(rows[1])

\* add_items(data, ids) with ids = arange(len(data)) on a just-initialised graph:
\* raises on a row width other than dim and on exceeding the capacity
AddItemsOk(ix, rows) ==
    /\ Width(rows) = ix.dim
    /\ Len(ix.data) + Len(rows) <= ix.cap
AddItems(ix, rows) ==
    [ix EXCEPT !.data = ix.data \o [i \in 1..Len(rows) |-> Prepared(ix.space, rows[i])]]

GetCurrentCount(ix) == Len(ix.data)

\* the stored elements as (label, distance to q), nearest first: ascending by
\* (distance, label), built by inserting the labels h, h+1, ... into `sorted`
RECURSIVE Ranked(_, _, _, _)
Ranked(ix, q, h, sorted) ==
    IF h >= Len(ix.data) THEN sorted
    ELSE LET d == Distance(ix.space, q, ix.data[h + 1])
             p == Cardinality({i \in 1..Len(sorted) : sorted[i][2] <= d})
         IN  Ranked(ix, q, h + 1,
                    SubSeq(sorted, 1, p) \o <<(<<h, d>>)>> \o SubSeq(sorted, p + 1, Len(sorted)))

\* knn_query(rows, k): one list of k (label, distance) per row, nearest first.
\* It raises when fewer than k elements exist ("Cannot return the results in a
\* contiguous 2D array"); it does not check the width of the rows, and reads
\* dim floats of each whatever their width
KnnQueryDefined(ix, rows) == ix.st = "ready" /\ Width(rows) = ix.dim
KnnQueryOk(ix, rows, k) == k <= Len(ix.data)
KnnRow(ix, row, k) ==
    SubSeq(Ranked(ix, Prepared(ix.space, row), 0, <<>>), 1, k)
KnnQuery(ix, rows, k) == [j \in 1..Len(rows) |-> KnnRow(ix, rows[j], k)]

----------------------------------------------------------------------------
(* ANNIndex                                                                *)

\* {} and the record build() writes (built_at, never read back, is left out)
NoMetadata ==
    [keys |-> {}, n_elements |-> 0, dim |-> 0, space |-> "", ef_construction |-> 0, M |-> 0]
BuildMetadata(n, d, cfg) ==
    [keys |-> {"n_elements", "dim", "space", "ef_construction", "M"},
     n_elements |-> n, dim |-> d, space |-> cfg.space,
     ef_construction |-> cfg.ef_construction, M |-> cfg.M]

\* enumerate(user_ids, 1) in place of enumerate(user_ids)
EnumIdToUserFromOne(user_ids) == [i \in 1..Len(user_ids) |-> user_ids[i]]

\* {i: uid for i, uid in enumerate(user_ids)}
EnumIdToUser(user_ids) == [i \in 0..(Len(user_ids) - 1) |-> user_ids[i + 1]]
\* {uid: i for i, uid in enumerate(user_ids)}: a later position overwrites
EnumUserToId(user_ids) ==
    [u \in Range(user_ids) |->
        CHOOSE i \in 0..(Len(user_ids) - 1) :
            /\ user_ids[i + 1] = u
            /\ \A j \in 0..(Len(user_ids) - 1) : user_ids[j + 1] = u => j <= i]
\* {v: k for k, v in id_to_user.items()}, keys in ascending order
InvertIdToUser(i2u) ==
    [u \in {i2u[h] : h \in DOMAIN i2u} |->
        CHOOSE h \in DOMAIN i2u : i2u[h] = u /\ \A g \in DOMAIN i2u : i2u[g] = u => g <= h]

NoMap == [h \in {} |-> ""]
NoInverse == [u \in {} |-> 0]

VARIABLES
    config,      \* self.config
    dim,         \* self.dim
    index,       \* self.index
    id_to_user,  \* self.id_to_user
    user_to_id,  \* self.user_to_id
    metadata,    \* self.metadata
    disk,        \* the artifact directory: index.bin and mappings.json
    saver,       \* history: the controller that wrote the artifact
    completed,   \* history: a build() or load() of this controller has returned
    last,        \* the latest call: its arguments and what it returned or raised
    calls        \* per thread: the query() or query_batch() call it is inside

vars ==
    <<config, dim, index, id_to_user, user_to_id, metadata, disk, saver, completed, last, calls>>
ctl == <<config, dim, index, id_to_user, user_to_id, metadata>>

\* index.bin holds the vectors as stored, their width and the capacity, not the
\* space; mappings.json holds id_to_user under string keys and the metadata
NoDisk == [bin |-> [present |-> FALSE, corrupt |-> FALSE, dim |-> 0, cap |-> 0, data |-> <<>>],
           sidecar |-> [present |-> FALSE, corrupt |-> FALSE, fields |-> {},
                        id_to_user |-> <<>>, metadata |-> NoMetadata]]
NoSaver == [config |-> MkConfig("cosine", DefaultMaxElements), index |-> NoIndex,
            id_to_user |-> NoMap]

\* what the controller held when the call was made
Pre == [st |-> index.st, n |-> Len(index.data), ids |-> Range(id_to_user),
        completed |-> completed]
Call(op, outcome) ==
    [op |-> op, outcome |-> outcome, rows |-> <<>>, ids |-> <<>>, k |-> 0,
     ex |-> NoneIds, out |-> <<>>, pre |-> Pre]

InitialCall ==
    [op |-> "new", outcome |-> "ok", rows |-> <<>>, ids |-> <<>>, k |-> 0,
     ex |-> NoneIds, out |-> <<>>,
     pre |-> [st |-> "none", n |-> 0, ids |-> {}, completed |-> FALSE]]

\* the threads that call query() and query_batch() on one controller
Threads == {"t1", "t2"}

\* the frame of a call: its arguments, its locals (query_k, the candidates
\* knn_query returned, the row and the candidate the loops are at, results,
\* all_results in `out`), and what it returned or raised.  History: `among`
\* holds the threads that were inside a call when this one began, `dirty`
\* that build() or load() ran while the call was inside
NoCall ==
    [pc |-> "idle", op |-> "", rows |-> <<>>, k |-> 0, ex |-> NoneIds, query_k |-> 0,
     cands |-> <<>>, row |-> 0, i |-> 0, results |-> <<>>, outcome |-> "", out |-> <<>>,
     among |-> {}, dirty |-> FALSE]
NoCalls == [t \in Threads |-> NoCall]
\* a call that build() or load() overtakes reads a controller that is being
\* replaced under it: the model follows it no further.  A result that is
\* ready was computed on the controller as it was before
Overtaken(cs) ==
    [t \in DOMAIN cs |->
        IF cs[t].pc \in {"fetch", "loop"}
        THEN [NoCall EXCEPT !.pc = "done", !.op = cs[t].op, !.outcome = "raced", !.dirty = TRUE]
        ELSE IF cs[t].pc = "done" THEN [cs[t] EXCEPT !.dirty = TRUE]
        ELSE cs[t]]

\* __init__(config, dim)
Construct(cfg, d) ==
    /\ config = cfg
    /\ dim = d
    /\ index = NoIndex
    /\ id_to_user = NoMap
    /\ user_to_id = NoInverse
    /\ metadata = NoMetadata

Init ==
    /\ \E cfg \in Configs, d \in Dims : Construct(cfg, d)
    /\ disk = NoDisk
    /\ saver = NoSaver
    /\ completed = FALSE
    /\ last = InitialCall
    /\ calls = NoCalls

\* a new controller object replaces the old one; the directory stays
New(cfg, d) ==
    /\ config' = cfg
    /\ dim' = d
    /\ index' = NoIndex
    /\ id_to_user' = NoMap
    /\ user_to_id' = NoInverse
    /\ metadata' = NoMetadata
    /\ completed' = FALSE
    /\ last' = Call("new", "ok")
    /\ UNCHANGED <<disk, saver, calls>>

\* the capacity without the element count
CapacityConfigured(cfg, n_elements) == cfg.max_elements

\* max_elements=max(n_elements, self.config.max_elements)
Capacity(cfg, n_elements) == Max(n_elements, cfg.max_elements)

\* build(embeddings, user_ids)
BuildIndex(cfg, d, embeddings) ==
    LET n_elements == Len(embeddings)
        fresh == InitIndex(NewIndex(cfg.space, d), Capacity(cfg, n_elements))
    IN  IF AddItemsOk(fresh, embeddings) THEN AddItems(fresh, embeddings) ELSE fresh
BuildOk(cfg, d, embeddings) ==
    AddItemsOk(InitIndex(NewIndex(cfg.space, d), Capacity(cfg, Len(embeddings))),
               embeddings)
Build(embeddings, user_ids) ==
    /\ index' = BuildIndex(config, dim, embeddings)
    /\ id_to_user' = EnumIdToUser(user_ids)
    /\ user_to_id' = EnumUserToId(user_ids)
    /\ IF BuildOk(config, dim, embeddings)
       THEN /\ metadata' = BuildMetadata(Len(embeddings), dim, config)
            /\ completed' = TRUE
            /\ last' = [Call("build", "ok") EXCEPT !.rows = embeddings, !.ids = user_ids]
       ELSE /\ UNCHANGED <<metadata, completed>>
            /\ last' = [Call("build", "RuntimeError") EXCEPT
                            !.rows = embeddings, !.ids = user_ids]
    /\ calls' = Overtaken(calls)
    /\ UNCHANGED <<config, dim, disk, saver>>

----------------------------------------------------------------------------
(* query() and query_batch()                                               *)

\* a call on an hnswlib.Index that holds no graph dereferences a null pointer,
\* and a query of another width than the index is read past its end: the
\* process dies, or the call returns with arbitrary content
UndefinedOutcomes == {"crash", "garbage"}

\* `if exclude_ids` is false for None and for the empty list
ExcludeLen(ex) == IF ex.none THEN 0 ELSE Len(ex.ids)
ExcludeSet(ex) == IF ex.none THEN {} ELSE Range(ex.ids)

\* `if user_id`: the handle is mapped, and to a non-empty string
Truthy(i2u, h) == h \in DOMAIN i2u /\ i2u[h] # ""

\* the conversion without the sign change of the non-cosine branch
SimilarityUnsigned(cfg, distance) == IF cfg.space = "cosine" THEN One - distance ELSE distance

\* similarity = 1 - distance for cosine, -distance otherwise, by the
\* controller's configured space
Similarity(cfg, distance) == IF cfg.space = "cosine" THEN One - distance ELSE 0 - distance

\* the filter without its exclusion test
KeepsUnfiltered(i2u, internal_id, exclude_set) == Truthy(i2u, internal_id)

\* `if user_id and user_id not in exclude_set`
Keeps(i2u, internal_id, exclude_set) ==
    Truthy(i2u, internal_id) /\ i2u[internal_id] \notin exclude_set

\* the filter loop of query(), from candidate i on
RECURSIVE QueryLoop(_, _, _, _, _, _, _)
QueryLoop(cands, i, results, i2u, cfg, exclude_set, k) ==
    IF i > Len(cands) THEN results
    ELSE LET internal_id == cands[i][1]
             distance == cands[i][2]
         IN  IF Keeps(i2u, internal_id, exclude_set)
             THEN LET r == Append(results, <<i2u[internal_id], Similarity(cfg, distance)>>)
                  IN  IF Len(r) >= k THEN r
                      ELSE QueryLoop(cands, i + 1, r, i2u, cfg, exclude_set, k)
             ELSE QueryLoop(cands, i + 1, results, i2u, cfg, exclude_set, k)

\* the loop of query_batch() over one row's candidates
RECURSIVE BatchLoop(_, _, _, _, _)
BatchLoop(cands, i, results, i2u, cfg) ==
    IF i > Len(cands) THEN results
    ELSE LET internal_id == cands[i][1]
             distance == cands[i][2]
         IN  IF Truthy(i2u, internal_id)
             THEN BatchLoop(cands, i + 1,
                      Append(results, <<i2u[internal_id], Similarity(cfg, distance)>>),
                      i2u, cfg)
             ELSE BatchLoop(cands, i + 1, results, i2u, cfg)

Answer(outcome, out) == [outcome |-> outcome, out |-> out]

\* the fetch without the allowance for the exclusions and without the margin
QueryKExact(ix, k, ex) == Min(k, GetCurrentCount(ix))

\* query_k = min(k + len(exclude_ids) + 10, current count)
QueryK(ix, k, ex) == Min(k + ExcludeLen(ex) + Margin, GetCurrentCount(ix))

\* the answers query(embedding, k, exclude_ids) can give
QueryAnswers(ix, i2u, cfg, embedding, k, ex) ==
    IF ix.st = "none" THEN {Answer("NotBuilt", <<>>)}
    ELSE IF ~KnnQueryDefined(ix, <<embedding>>)
         THEN {Answer(o, <<>>) : o \in UndefinedOutcomes}
    ELSE IF ~KnnQueryOk(ix, <<embedding>>, QueryK(ix, k, ex))
         THEN {Answer("RuntimeError", <<>>)}
    ELSE {Answer("ok",
            <<QueryLoop(KnnQuery(ix, <<embedding>>, QueryK(ix, k, ex))[1], 1, <<>>,
                        i2u, cfg, ExcludeSet(ex), k)>>)}

\* the answers query_batch(embeddings, k) can give
BatchAnswers(ix, i2u, cfg, embeddings, k) ==
    IF ix.st = "none" THEN {Answer("NotBuilt", <<>>)}
    ELSE IF ~KnnQueryDefined(ix, embeddings)
         THEN {Answer(o, <<>>) : o \in UndefinedOutcomes}
    ELSE IF ~KnnQueryOk(ix, embeddings, k) THEN {Answer("RuntimeError", <<>>)}
    ELSE {Answer("ok",
            LET found == KnnQuery(ix, embeddings, k)
            IN  [j \in 1..Len(embeddings) |-> BatchLoop(found[j], 1, <<>>, i2u, cfg)])}

Query(embedding, k, ex) ==
    /\ \E a \in QueryAnswers(index, id_to_user, config, embedding, k, ex) :
          last' = [Call("query", a.outcome) EXCEPT
                       !.rows = <<embedding>>, !.k = k, !.ex = ex, !.out = a.out]
    /\ UNCHANGED <<ctl, disk, saver, completed, calls>>

QueryBatch(embeddings, k) ==
    /\ \E a \in BatchAnswers(index, id_to_user, config, embeddings, k) :
          last' = [Call("query_batch", a.outcome) EXCEPT
                       !.rows = embeddings, !.k = k, !.out = a.out]
    /\ UNCHANGED <<ctl, disk, saver, completed, calls>>

----------------------------------------------------------------------------
(* query() and query_batch() statement by statement, on several threads    *)

\* return or raise: the locals are gone
Done(c, outcome, out) ==
    [c EXCEPT !.pc = "done", !.outcome = outcome, !.out = out,
              !.query_k = 0, !.cands = <<>>, !.row = 0, !.i = 0, !.results = <<>>]

\* the guard `self.index is None`, and for query() query_k
Enter(t, op, rows, k, ex) ==
    /\ calls[t].pc = "idle"
    /\ LET c == [NoCall EXCEPT !.op = op, !.rows = rows, !.k = k, !.ex = ex,
                     !.among = {u \in Threads : calls[u].pc \in {"fetch", "loop"}}]
       IN  calls' = [calls EXCEPT ![t] =
                       IF index.st = "none" THEN Done(c, "NotBuilt", <<>>)
                       ELSE [c EXCEPT !.pc = "fetch",
                                      !.query_k = IF op = "query" THEN QueryK(index, k, ex)
                                                  ELSE k]]
    /\ UNCHANGED <<ctl, disk, saver, completed, last>>

\* self.index.knn_query(...)
Fetch(t) ==
    /\ calls[t].pc = "fetch"
    /\ LET c == calls[t]
       IN  \E o \in (IF KnnQueryDefined(index, c.rows) THEN {"defined"} ELSE UndefinedOutcomes) :
              calls' = [calls EXCEPT ![t] =
                          IF o # "defined" THEN Done(c, o, <<>>)
                          ELSE IF ~KnnQueryOk(index, c.rows, c.query_k)
                               THEN Done(c, "RuntimeError", <<>>)
                          ELSE [c EXCEPT !.pc = "loop", !.row = 1, !.i = 1,
                                         !.cands = KnnQuery(index, c.rows, c.query_k)]]
    /\ UNCHANGED <<ctl, disk, saver, completed, last>>

\* the loop body without `if len(results) >= k: break`
IterationNoBreak(c, i2u, cfg) ==
    IF c.i > Len(c.cands[c.row])
    THEN IF c.row >= Len(c.cands)
         THEN Done(c, "ok", Append(c.out, c.results))
         ELSE [c EXCEPT !.out = Append(c.out, c.results), !.results = <<>>,
                        !.row = c.row + 1, !.i = 1]
    ELSE LET internal_id == c.cands[c.row][c.i][1]
             distance == c.cands[c.row][c.i][2]
             keep == IF c.op = "query" THEN Keeps(i2u, internal_id, ExcludeSet(c.ex))
                     ELSE Truthy(i2u, internal_id)
             r == IF keep
                  THEN Append(c.results, <<i2u[internal_id], Similarity(cfg, distance)>>)
                  ELSE c.results
         IN  [c EXCEPT !.results = r, !.i = c.i + 1]

\* one pass of the loop over the candidates: when they are exhausted query()
\* returns and query_batch() appends the row's results and takes the next row
Iteration(c, i2u, cfg) ==
    IF c.i > Len(c.cands[c.row])
    THEN IF c.row >= Len(c.cands)
         THEN Done(c, "ok", Append(c.out, c.results))
         ELSE [c EXCEPT !.out = Append(c.out, c.results), !.results = <<>>,
                        !.row = c.row + 1, !.i = 1]
    ELSE LET internal_id == c.cands[c.row][c.i][1]
             distance == c.cands[c.row][c.i][2]
             keep == IF c.op = "query" THEN Keeps(i2u, internal_id, ExcludeSet(c.ex))
                     ELSE Truthy(i2u, internal_id)
             r == IF keep
                  THEN Append(c.results, <<i2u[internal_id], Similarity(cfg, distance)>>)
                  ELSE c.results
         IN  IF c.op = "query" /\ keep /\ Len(r) >= c.k
             THEN Done(c, "ok", <<r>>)
             ELSE [c EXCEPT !.results = r, !.i = c.i + 1]

Iterate(t) ==
    /\ calls[t].pc = "loop"
    /\ calls' = [calls EXCEPT ![t] = Iteration(calls[t], id_to_user, config)]
    /\ UNCHANGED <<ctl, disk, saver, completed, last>>

\* the caller has taken the result
Return(t) ==
    /\ calls[t].pc = "done"
    /\ calls' = [calls EXCEPT ![t] = NoCall]
    /\ UNCHANGED <<ctl, disk, saver, completed, last>>

----------------------------------------------------------------------------
(* save() and load()                                                       *)

\* the keys of a dict in ascending order
RECURSIVE SortedKeys(_)
SortedKeys(keys) ==
    IF keys = {} THEN <<>>
    ELSE LET m == CHOOSE x \in keys : \A y \in keys : x <= y
         IN  <<m>> \o SortedKeys(keys \ {m})

\* {str(k): v for k, v in id_to_user.items()}
DumpIdToUser(i2u) ==
    LET keys == SortedKeys(DOMAIN i2u)
    IN  [i \in 1..Len(keys) |-> <<ToString(keys[i]), i2u[keys[i]]>>]
\* int(k) of a decimal string
ParseInt(str) == CHOOSE n \in 0..(BigN + 1) : ToString(n) = str
\* {int(k): v for k, v in data["id_to_user"].items()}: a later entry overwrites
ParseIdToUser(pairs) ==
    [h \in {ParseInt(pairs[i][1]) : i \in DOMAIN pairs} |->
        LET i == CHOOSE i \in DOMAIN pairs :
                     /\ ParseInt(pairs[i][1]) = h
                     /\ \A j \in DOMAIN pairs : ParseInt(pairs[j][1]) = h => j <= i
        IN  pairs[i][2]]

\* save_index(): what index.bin holds afterwards
SaveIndex(ix) ==
    [present |-> TRUE, corrupt |-> FALSE, dim |-> ix.dim, cap |-> ix.cap, data |-> ix.data]
Sidecar(i2u, md) ==
    [present |-> TRUE, corrupt |-> FALSE, fields |-> {"id_to_user", "metadata"},
     id_to_user |-> DumpIdToUser(i2u), metadata |-> md]

Save ==
    /\ IF index.st = "none"
       THEN /\ last' = Call("save", "NotBuilt")
            /\ UNCHANGED <<disk, saver>>
       ELSE IF index.st = "new"
       THEN \E o \in UndefinedOutcomes :
               /\ last' = Call("save", o)
               /\ IF o = "crash"
                  THEN UNCHANGED disk
                  ELSE disk' = [bin |-> [SaveIndex(index) EXCEPT !.corrupt = TRUE],
                                sidecar |-> Sidecar(id_to_user, metadata)]
               /\ UNCHANGED saver
       ELSE /\ disk' = [bin |-> SaveIndex(index), sidecar |-> Sidecar(id_to_user, metadata)]
            /\ saver' = [config |-> config, index |-> index, id_to_user |-> id_to_user]
            /\ last' = Call("save", "ok")
    /\ UNCHANGED <<ctl, completed, calls>>

\* metadata.get(key, default)
MetaDim(md, default) == IF "dim" \in md.keys THEN md.dim ELSE default
MetaSpace(md, default) == IF "space" \in md.keys THEN md.space ELSE default
\* data.get("metadata", {})
SidecarMetadata(sc) == IF "metadata" \in sc.fields THEN sc.metadata ELSE NoMetadata

\* load_index() reads the stored vectors at the width of the receiving index;
\* hnswlib checks neither the width nor the space against the file
LoadIndexOk(bin) == bin.present /\ ~bin.corrupt
LoadIndex(ix, bin) ==
    [ix EXCEPT !.st = "ready", !.cap = Max(bin.cap, Len(bin.data)),
               !.data = [i \in 1..Len(bin.data) |->
                            [c \in 1..ix.dim |->
                                IF c <= Len(bin.data[i]) THEN bin.data[i][c] ELSE 0]]]

Load ==
    IF ~disk.sidecar.present
    THEN /\ last' = Call("load", "FileNotFoundError")
         /\ UNCHANGED <<ctl, disk, saver, completed, calls>>
    ELSE IF disk.sidecar.corrupt
    THEN /\ last' = Call("load", "JSONDecodeError")
         /\ UNCHANGED <<ctl, disk, saver, completed, calls>>
    ELSE IF "id_to_user" \notin disk.sidecar.fields
    THEN /\ last' = Call("load", "KeyError")
         /\ UNCHANGED <<ctl, disk, saver, completed, calls>>
    ELSE LET md == SidecarMetadata(disk.sidecar)
             d == MetaDim(md, dim)
             space == MetaSpace(md, config.space)
         IN  /\ id_to_user' = ParseIdToUser(disk.sidecar.id_to_user)
             /\ user_to_id' = InvertIdToUser(ParseIdToUser(disk.sidecar.id_to_user))
             /\ metadata' = md
             /\ dim' = d
             /\ IF LoadIndexOk(disk.bin)
                THEN /\ index' = LoadIndex(NewIndex(space, d), disk.bin)
                     /\ completed' = TRUE
                     /\ last' = Call("load", "ok")
                ELSE /\ index' = NewIndex(space, d)
                     /\ UNCHANGED completed
                     /\ last' = Call("load", "RuntimeError")
             /\ calls' = Overtaken(calls)
             /\ UNCHANGED <<config, disk, saver>>

\* what can happen to the artifact directory between save() and load(): a file
\* is removed, a file is cut short, the sidecar loses one of its two entries.
\* One damage per saved artifact.
Whole ==
    /\ disk.bin.present /\ ~disk.bin.corrupt
    /\ disk.sidecar.present /\ ~disk.sidecar.corrupt
    /\ disk.sidecar.fields = {"id_to_user", "metadata"}
Damages == {"rm_bin", "cut_bin", "rm_sidecar", "cut_sidecar", "no_id_to_user", "no_metadata"}
Damage(what) ==
    /\ Whole
    /\ disk' =
          IF what = "rm_bin" THEN [disk EXCEPT !.bin = NoDisk.bin]
          ELSE IF what = "cut_bin" THEN [disk EXCEPT !.bin.corrupt = TRUE]
          ELSE IF what = "rm_sidecar" THEN [disk EXCEPT !.sidecar = NoDisk.sidecar]
          ELSE IF what = "cut_sidecar" THEN [disk EXCEPT !.sidecar.corrupt = TRUE]
          ELSE IF what = "no_id_to_user"
               THEN [disk EXCEPT !.sidecar.fields = @ \ {"id_to_user"}]
          ELSE [disk EXCEPT !.sidecar.fields = @ \ {"metadata"}]
    /\ last' = Call("damage", "ok")
    /\ UNCHANGED <<ctl, saver, completed, calls>>

----------------------------------------------------------------------------
(* Specifications                                                          *)

\* build and query, over the full input sets
Next ==
    \/ \E in \in BuildInputs : Build(in[1], in[2])
    \/ \E q \in QueryVecs, k \in 1..MaxK, ex \in Excludes : Query(q, k, ex)
    \/ \E rows \in BatchInputs, k \in 1..MaxK : QueryBatch(rows, k)

Spec == Init /\ [][Next]_vars

\* the same controller with its artifact directory, over smaller input sets
InitIO ==
    /\ \E cfg \in IOConfigs, d \in IODims : Construct(cfg, d)
    /\ disk = NoDisk
    /\ saver = NoSaver
    /\ completed = FALSE
    /\ last = InitialCall
    /\ calls = NoCalls

NextIO ==
    \/ \E cfg \in IOConfigs, d \in IODims : New(cfg, d)
    \/ \E in \in IOBuildInputs : Build(in[1], in[2])
    \/ \E q \in IOQueryVecs, k \in 1..MaxK, ex \in IOExcludes : Query(q, k, ex)
    \/ \E rows \in IOBatchInputs, k \in 1..MaxK : QueryBatch(rows, k)
    \/ Save
    \/ Load

SpecIO == InitIO /\ [][NextIO]_vars

\* the controller and an artifact directory that other processes can damage:
\* two spaces, and one query and one batch of each width
InitEnv ==
    /\ \E cfg \in EnvConfigs, d \in IODims : Construct(cfg, d)
    /\ disk = NoDisk
    /\ saver = NoSaver
    /\ completed = FALSE
    /\ last = InitialCall
    /\ calls = NoCalls

NextEnv ==
    \/ \E cfg \in EnvConfigs, d \in IODims : New(cfg, d)
    \/ \E in \in IOBuildInputs : Build(in[1], in[2])
    \/ \E q \in IOQueryVecs : Query(q, MaxK, NoneIds)
    \/ \E rows \in IOBatchInputs : QueryBatch(rows, MaxK)
    \/ Save
    \/ Load
    \/ \E what \in Damages : Damage(what)

SpecEnv == InitEnv /\ [][NextEnv]_vars

\* one controller queried by the threads, statement by statement, and rebuilt
ParBuildInputs ==
    {<< <<VA, VC>>, <<"a", "b">> >>, << <<VC, VB, VA>>, <<"", "a", "c">> >>}
ParExcludes == {NoneIds, SomeIds(<<"a">>)}
ParBatchInputs == {<<VC, VA>>}

InitPar ==
    /\ \E cfg \in EnvConfigs, d \in Dims : Construct(cfg, d)
    /\ disk = NoDisk
    /\ saver = NoSaver
    /\ completed = FALSE
    /\ last = InitialCall
    /\ calls = NoCalls

NextPar ==
    \/ \E in \in ParBuildInputs : Build(in[1], in[2])
    \/ \E t \in Threads, k \in 1..MaxK, ex \in ParExcludes : Enter(t, "query", <<VA>>, k, ex)
    \/ \E t \in Threads, rows \in ParBatchInputs, k \in 1..MaxK :
          Enter(t, "query_batch", rows, k, NoneIds)
    \/ \E t \in Threads : Fetch(t)
    \/ \E t \in Threads : Iterate(t)
    \/ \E t \in Threads : Return(t)

SpecPar == InitPar /\ [][NextPar]_vars

----------------------------------------------------------------------------
(* Properties                                                              *)

Ids(results) == {results[i][1] : i \in DOMAIN results}
Injective(f) == \A x \in DOMAIN f, y \in DOMAIN f : f[x] = f[y] => x = y

\* C1: as long as no build() and no load() of the controller has returned
\* successfully, every query(), query_batch() and save() fails with the
\* "index not built" error.
C1_NotBuiltIsFatal ==
    (last.op \in {"query", "query_batch", "save"} /\ ~last.pre.completed)
        => last.outcome = "NotBuilt"

\* C2: no external ID of exclude_ids appears in the list query() returns.
C2_NoExcludedId ==
    (last.op = "query" /\ last.outcome = "ok")
        => Ids(last.out[1]) \cap ExcludeSet(last.ex) = {}

\* C2 witness: a query that returned results although the ID nearest to it,
\* and mapped by the index, was excluded.
C2_Witness ==
    /\ last.op = "query" /\ last.outcome = "ok"
    /\ last.out[1] # <<>>
    /\ \E a \in QueryAnswers(index, id_to_user, config, last.rows[1], last.k, NoneIds) :
          /\ a.outcome = "ok" /\ a.out[1] # <<>>
          /\ a.out[1][1][1] \in ExcludeSet(last.ex)

\* C3: after save() by a controller with a built index and load() into a newly
\* constructed controller, every query gets the same ranked IDs and scores
\* from the loading controller as from the saving one.
C3_RoundTrip ==
    (/\ last.op = "load" /\ last.outcome = "ok"
     /\ last.pre.st = "none" /\ ~last.pre.completed
     /\ saver.index.st = "ready" /\ Len(saver.index.data) >= 1)
        => \A q \in IOQueryVecs, k \in 1..MaxK, ex \in IOExcludes :
              QueryAnswers(index, id_to_user, config, q, k, ex)
                  = QueryAnswers(saver.index, saver.id_to_user, saver.config, q, k, ex)

\* C4: whenever the controller holds an index and the IDs it maps are unique,
\* id_to_user maps exactly the handles 0..N-1 of the graph, to the IDs of the
\* build input by position, and user_to_id is its inverse.
C4_IdentifierMapBijection ==
    (index.st # "none" /\ Injective(id_to_user))
        => /\ DOMAIN id_to_user = 0..(Len(index.data) - 1)
           /\ user_to_id = InvertIdToUser(id_to_user)
           /\ last.op = "build" =>
                 \A h \in DOMAIN id_to_user :
                     h + 1 \in DOMAIN last.ids /\ id_to_user[h] = last.ids[h + 1]

\* C5: build() with a number of embedding rows other than the number of
\* external IDs fails, and leaves the graph and the identifier map as they were.
C5_LengthMismatchRejected ==
    (last.op = "build" /\ Len(last.rows) # Len(last.ids))
        => /\ last.outcome # "ok"
           /\ index.st = last.pre.st
           /\ Len(index.data) = last.pre.n
           /\ Range(id_to_user) = last.pre.ids

\* C6: after a successful build(E, ids) the graph holds exactly the vectors of
\* E under handles 0..|E|-1, both directions of the identifier map hold only
\* entries of ids, the metadata describes this build, and every ID a query
\* returns is one of ids.
C6_BuildReplaces ==
    (last.op = "build" /\ last.outcome = "ok")
        => /\ index.st = "ready"
           /\ index.space = config.space /\ index.dim = dim
           /\ index.data = [i \in 1..Len(last.rows) |-> Prepared(config.space, last.rows[i])]
           /\ DOMAIN id_to_user = 0..(Len(last.ids) - 1)
           /\ \A h \in DOMAIN id_to_user : id_to_user[h] = last.ids[h + 1]
           /\ DOMAIN user_to_id = Range(last.ids)
           /\ \A u \in DOMAIN user_to_id :
                 user_to_id[u] + 1 \in DOMAIN last.ids /\ last.ids[user_to_id[u] + 1] = u
           /\ metadata.n_elements = Len(last.rows)
           /\ metadata.dim = dim /\ metadata.space = config.space
           /\ \A q \in QueryVecs, k \in 1..MaxK, ex \in Excludes :
                 \A a \in QueryAnswers(index, id_to_user, config, q, k, ex) :
                     \A j \in DOMAIN a.out : Ids(a.out[j]) \subseteq Range(last.ids)

\* C6 witness: a successful build on a controller that held a built index of
\* another size, some of whose IDs are not in the new input.
C6_Witness ==
    /\ last.op = "build" /\ last.outcome = "ok"
    /\ last.pre.st = "ready" /\ last.pre.n >= 1 /\ last.pre.n # Len(last.rows)
    /\ last.pre.ids \ Range(last.ids) # {}

\* C7: every list query() and query_batch() return is in non-increasing
\* score order.
C7_ScoresNonIncreasing ==
    (last.op \in {"query", "query_batch"} /\ last.outcome = "ok")
        => \A j \in DOMAIN last.out :
              \A i \in 1..(Len(last.out[j]) - 1) : last.out[j][i][2] >= last.out[j][i + 1][2]

\* C7 witness: a query on a non-cosine index that excluded an indexed ID and
\* returned two results of different scores.
C7_Witness ==
    /\ last.op = "query" /\ last.outcome = "ok"
    /\ config.space # "cosine" /\ ExcludeSet(last.ex) \cap Range(id_to_user) # {}
    /\ Len(last.out[1]) >= 2
    /\ last.out[1][1][2] > last.out[1][2][2]

\* the candidates query() fetched for the latest call
Fetched == KnnQuery(index, last.rows, QueryK(index, last.k, last.ex))[1]

\* C8: on an index whose handles all have an external ID, the list query()
\* returns has min(k, c) entries, c being the number of fetched candidates
\* whose external ID is not excluded.
C8_ResultLength ==
    (/\ last.op = "query" /\ last.outcome = "ok"
     /\ DOMAIN id_to_user = 0..(Len(index.data) - 1))
        => Len(last.out[1]) =
              Min(last.k,
                  Cardinality({i \in DOMAIN Fetched :
                      /\ Fetched[i][1] \in DOMAIN id_to_user
                      /\ id_to_user[Fetched[i][1]] \notin ExcludeSet(last.ex)}))

\* every handle of the graph is mapped to a non-empty ID
AllMapped == \A h \in 0..(Len(index.data) - 1) : Truthy(id_to_user, h)

\* C9: query_batch(embeddings, k) on a non-empty index returns one list per
\* row, of k results when the index holds at least k elements and of all
\* indexed elements when it holds fewer, and does not fail.
C9_BatchLengths ==
    (/\ last.op = "query_batch"
     /\ KnnQueryDefined(index, last.rows) /\ Len(index.data) >= 1 /\ AllMapped)
        => /\ last.outcome = "ok"
           /\ Len(last.out) = Len(last.rows)
           /\ \A j \in DOMAIN last.out : Len(last.out[j]) = Min(last.k, Len(index.data))

\* C10: query_batch on a one-row matrix returns what query on that row with no
\* exclusions returns, also when k exceeds the number of indexed elements.
C10_BatchMatchesSingle ==
    (/\ last.op = "query_batch" /\ Len(last.rows) = 1
     /\ KnnQueryDefined(index, last.rows) /\ Len(index.data) >= 1 /\ AllMapped)
        => Answer(last.outcome, last.out)
              \in QueryAnswers(index, id_to_user, config, last.rows[1], last.k, NoneIds)

\* C11: whenever save() succeeds, after any sequence of successful and failed
\* build() and load() calls, the metadata in the sidecar has n_elements equal to
\* the number of elements of the graph written beside it, and dim and space
\* equal to the dimension and the space that graph was built with.
C11_SavedMetadataDescribesGraph ==
    (last.op = "save" /\ last.outcome = "ok")
        => /\ {"n_elements", "dim", "space"} \subseteq disk.sidecar.metadata.keys
           /\ disk.sidecar.metadata.n_elements = Len(disk.bin.data)
           /\ disk.sidecar.metadata.dim = disk.bin.dim
           /\ disk.sidecar.metadata.space = index.space

\* C12: load() fails whenever the sidecar is missing, unreadable or lacks the
\* id_to_user map or the metadata record with its dim and space, whenever the
\* binary is missing, and whenever the dimension or the space of the graph in
\* the binary differs from the sidecar's; it never completes on the
\* controller's own dim or space.
C12_LoadRejectsBadArtifact ==
    LET sc == disk.sidecar
        bin == disk.bin
    IN  (/\ last.op = "load"
         /\ \/ ~sc.present \/ sc.corrupt
            \/ ~({"id_to_user", "metadata"} \subseteq sc.fields)
            \/ ~({"dim", "space"} \subseteq sc.metadata.keys)
            \/ ~bin.present
            \/ bin.dim # sc.metadata.dim
            \/ (~bin.corrupt /\ saver.index.space # sc.metadata.space))
            => last.outcome # "ok"

\* C13: build() of N rows of the controller's dimension, N above the
\* configured max_elements, succeeds: the graph has capacity
\* max(N, max_elements) and holds all N vectors.
C13_BuildAboveMaxElements ==
    (/\ last.op = "build"
     /\ Len(last.rows) > config.max_elements /\ Width(last.rows) = dim)
        => /\ last.outcome = "ok"
           /\ index.cap = Max(Len(last.rows), config.max_elements)
           /\ Len(index.data) = Len(last.rows)
           /\ index.data = [i \in 1..Len(last.rows) |-> Prepared(config.space, last.rows[i])]

\* C13 witness: a successful build of the large corpus on a controller
\* configured for fewer elements, its graph holding every row.
C13_Witness ==
    /\ last.op = "build" /\ last.outcome = "ok"
    /\ Len(last.rows) = BigN /\ config.max_elements < BigN
    /\ index.cap = BigN /\ Len(index.data) = BigN

\* what the call of frame c returns when it runs alone on the controller
Alone(c) ==
    IF c.op = "query" THEN QueryAnswers(index, id_to_user, config, c.rows[1], c.k, c.ex)
    ELSE BatchAnswers(index, id_to_user, config, c.rows, c.k)
ResultsAsAlone ==
    \A t \in Threads :
        (calls[t].pc = "done" /\ ~calls[t].dirty)
            => Answer(calls[t].outcome, calls[t].out) \in Alone(calls[t])
QueryStep == calls' # calls /\ last' = last

\* C14: no statement of query() or query_batch() changes the graph, the
\* identifier map, the metadata, the dimension or the configuration, and every
\* call that ran, interleaved with other calls, with no build() or load() since
\* it began returns what it returns when run alone.
C14_ConcurrentQueries ==
    /\ []ResultsAsAlone
    /\ [][QueryStep => UNCHANGED ctl]_vars

\* C14 witness: two calls that were inside the controller at the same time,
\* with no rebuild since, have both returned results, of different lengths.
C14_Witness ==
    /\ calls["t1"].pc = "done" /\ calls["t2"].pc = "done"
    /\ ~calls["t1"].dirty /\ ~calls["t2"].dirty
    /\ calls["t2"].among = {"t1"}
    /\ calls["t1"].op = "query" /\ calls["t2"].op = "query_batch"
    /\ calls["t1"].outcome = "ok" /\ calls["t2"].outcome = "ok"
    /\ calls["t1"].out[1] # <<>> /\ Len(calls["t2"].out) = Len(calls["t2"].rows)
    /\ calls["t1"].out[1] # calls["t2"].out[1]

\* query(v, k, ex) answers with u first, at the highest score of the result
SelfFirst(v, u, k, ex) ==
    \A a \in QueryAnswers(index, id_to_user, config, v, k, ex) :
        /\ a.outcome = "ok"
        /\ a.out[1] # <<>>
        /\ a.out[1][1][1] = u
        /\ \A j \in DOMAIN a.out[1] : a.out[1][j][2] <= a.out[1][1][2]

\* C15: on a built index, for every vector v indexed under the external ID u,
\* query(v, k, exclude_ids) with u not excluded returns u first, with the
\* highest score of the result.
C15_SelfMatchFirst ==
    (last.op = "build" /\ last.outcome = "ok")
        => \A i \in DOMAIN last.rows \cap DOMAIN last.ids :
              \A k \in 1..MaxK, ex \in Excludes :
                  last.ids[i] \notin ExcludeSet(ex)
                      => SelfFirst(last.rows[i], last.ids[i], k, ex)

\* the external IDs the index can return: those of the graph's handles, not empty
Indexed == {id_to_user[h] : h \in {g \in DOMAIN id_to_user : g < Len(index.data) /\ id_to_user[g] # ""}}
\* the latest query() returned fewer than k results although k indexed IDs
\* were not excluded
UnderReturn ==
    /\ last.op = "query" /\ last.outcome = "ok"
    /\ Len(last.out[1]) < last.k
    /\ Cardinality(Indexed \ ExcludeSet(last.ex)) >= last.k

\* C16: query() can return fewer than k results although at least k indexed
\* external IDs are not excluded, and when it does it has fetched exactly
\* k + |exclude_ids| + 10 candidates, fewer than the index holds: the fixed
\* margin was too small for the candidates dropped among the nearest.
C16_MarginUnderReturns ==
    UnderReturn
        => /\ Len(Fetched) = last.k + ExcludeLen(last.ex) + Margin
           /\ Len(Fetched) < Len(index.data)

\* C16 witness: on an index whose handles all have a non-empty ID, a query
\* that excluded the ID of its nearest neighbours returned nothing although
\* another indexed ID was not excluded.
C16_Witness ==
    /\ UnderReturn
    /\ AllMapped /\ DOMAIN id_to_user = 0..(Len(index.data) - 1)
    /\ ~last.ex.none /\ ExcludeSet(last.ex) \subseteq Indexed
    /\ last.out[1] = <<>>
    /\ \A i \in DOMAIN Fetched : id_to_user[Fetched[i][1]] \in ExcludeSet(last.ex)

\* C17: a build() or load() that fails leaves the graph, the identifier map,
\* the metadata and the dimension exactly as they were before the call, so
\* the controller answers every query as before.
C17_AllOrNothing ==
    [][(last'.op \in {"build", "load"} /\ last'.outcome # "ok")
          => UNCHANGED <<index, id_to_user, user_to_id, metadata, dim>>]_vars
====
